---- MODULE Spec2Model ----
(***************************************************************************)
(* The lux_review notebook as a state machine.                             *)
(*                                                                         *)
(* The kernel state is a heap of DataFrame objects, the binding of the     *)
(* name df, and the outcome of the cell executed last.  Every code cell    *)
(* that touches df is one action; cells can be executed in any order and   *)
(* any number of times, as in an interactive notebook.  pos follows the    *)
(* top-to-bottom run of the notebook.                                      *)
(*                                                                         *)
(* A column label is the sequence of the pieces of its text, the bracket   *)
(* characters being pieces of their own, so that "contains a square        *)
(* bracket" is computed from a label and not looked up.  A column is a     *)
(* label together with src, the position of the CSV column its values      *)
(* were parsed from: drop and rename work on whole columns, so a column's  *)
(* values are the values read from file column src, in the row order of    *)
(* the table's index (nrows rows).                                         *)
(***************************************************************************)
EXTENDS Integers, Sequences, FiniteSets, TLC

VARIABLES file, heap, df, loaded, lastCell, lastOk, pos

vars == <<file, heap, df, loaded, lastCell, lastOk, pos>>

-----------------------------------------------------------------------------
(* Bounds of the model *)

\* DataFrame objects the kernel may allocate (read_csv and rename allocate)
MaxObjs == 3
\* row count of the small input files
SmallRows == 2

\* "10 000 data points"
NRows == 10000

-----------------------------------------------------------------------------
(* Column labels *)

Plain(s) == <<s>>
Square(s, u) == <<s, "[", u, "]">>
Round(s, u) == <<s, "(", u, ")">>

HasSquareBracket(label) == \E i \in DOMAIN label : label[i] \in {"[", "]"}

\* the header of ai4i2020.csv: 14 features
AI4I ==
    << Plain("UDI"), Plain("Product ID"), Plain("Type"),
       Square("Air temperature ", "K"), Square("Process temperature ", "K"),
       Square("Rotational speed ", "rpm"), Square("Torque ", "Nm"),
       Square("Tool wear ", "min"), Plain("Machine failure"),
       Plain("TWF"), Plain("HDF"), Plain("PWF"), Plain("OSF"), Plain("RNF") >>

\* columns=[...] of df.drop
DropColumns ==
    { Plain("Product ID"), Plain("TWF"), Plain("HDF"), Plain("PWF"),
      Plain("OSF"), Plain("RNF"), Plain("UDI") }

RenameMapBracket ==
    (Square("Air temperature ", "K") :> Round("Air temperature ", "K")) @@
    (Square("Process temperature ", "K") :> Round("Process temperature ", "K")) @@
    (Square("Rotational speed ", "rpm") :> Round("Rotational speed ", "rpm")) @@
    (Square("Torque ", "Nm") :> Round("Torque ", "Nm")) @@
    (Square("Tool wear ", "min") :> <<"Tool wear ", "(", "min", "]">>)

RenameMapClash ==
    (Square("Air temperature ", "K") :> Round("Air temperature ", "K")) @@
    (Square("Process temperature ", "K") :> Round("Process temperature ", "K")) @@
    (Square("Rotational speed ", "rpm") :> Round("Rotational speed ", "rpm")) @@
    (Square("Torque ", "Nm") :> Round("Torque ", "Nm")) @@
    (Square("Tool wear ", "min") :> Plain("TWF"))

\* columns={...} of df.rename
RenameMap ==
    (Square("Air temperature ", "K") :> Round("Air temperature ", "K")) @@
    (Square("Process temperature ", "K") :> Round("Process temperature ", "K")) @@
    (Square("Rotational speed ", "rpm") :> Round("Rotational speed ", "rpm")) @@
    (Square("Torque ", "Nm") :> Round("Torque ", "Nm")) @@
    (Square("Tool wear ", "min") :> Round("Tool wear ", "min"))

OldNames == DOMAIN RenameMap
NewNames == { RenameMap[o] : o \in OldNames }

IntentType == << Plain("Type") >>
IntentMachineFailure == << Plain("Machine failure") >>

-----------------------------------------------------------------------------
(* Input files *)

Without(s, k) == SubSeq(s, 1, k - 1) \o SubSeq(s, k + 1, Len(s))
Reverse(s) == [i \in 1..Len(s) |-> s[Len(s) + 1 - i]]

\* headers the file ai4i2020.csv is tried with: the dataset's own, the
\* dataset's with one column missing, with a column more, with a column
\* already carrying a round-bracket label, in another order, and one column
Schemas ==
    {AI4I}
    \cup { Without(AI4I, k) : k \in 1..Len(AI4I) }
    \cup { Append(AI4I, Plain("Extra")),
           Append(AI4I, Round("Torque ", "Nm")),
           Reverse(AI4I),
           << Plain("Type") >> }

RowCounts == {SmallRows, NRows}

NoFile == [exists |-> FALSE, schema |-> << >>, nrows |-> 0]

Files ==
    { [exists |-> TRUE, schema |-> s, nrows |-> n] : s \in Schemas, n \in RowCounts }
    \cup {NoFile}

-----------------------------------------------------------------------------
(* DataFrames *)

Names(t) == { t.cols[i].name : i \in DOMAIN t.cols }

\* pd.read_csv: one column per header field, in file order; Lux starts a
\* frame with an empty intent
ReadCsv(f) ==
    [ cols   |-> [i \in 1..Len(f.schema) |-> [name |-> f.schema[i], src |-> i]],
      nrows  |-> f.nrows,
      intent |-> << >> ]

IsDropped(c) == c.name \in DropColumns

DropTableKeepsUDI(t) ==
    LET Gone(c) == c.name \in (DropColumns \ {Plain("UDI")})
        Kept(c) == ~Gone(c)
    IN  [t EXCEPT !.cols = SelectSeq(t.cols, Kept)]

\* DataFrame.drop(columns=...): every column carrying a listed label goes,
\* the others stay in their order
DropTable(t) ==
    LET Kept(c) == ~IsDropped(c)
    IN  [t EXCEPT !.cols = SelectSeq(t.cols, Kept)]

RenameLabel(l) == IF l \in DOMAIN RenameMap THEN RenameMap[l] ELSE l

RenameTableShifts(t) ==
    [t EXCEPT !.cols =
        [i \in DOMAIN t.cols |->
            [name |-> RenameLabel(t.cols[i].name),
             src  |-> t.cols[(i % Len(t.cols)) + 1].src]]]

\* DataFrame.rename(columns=...): a new frame, every label that is a key of
\* the mapping replaced, every other label kept; positions, values and the
\* frame's metadata (the intent) carried over
RenameTable(t) ==
    [t EXCEPT !.cols =
        [i \in DOMAIN t.cols |->
            [name |-> RenameLabel(t.cols[i].name), src |-> t.cols[i].src]]]

SetIntentProjects(t, lst) ==
    LET InList(c) == \E j \in DOMAIN lst : lst[j] = c.name
    IN  [t EXCEPT !.intent = lst, !.cols = SelectSeq(t.cols, InList)]

SetIntentExtends(t, lst) == [t EXCEPT !.intent = t.intent \o lst]

\* df.intent = [...]
SetIntent(t, lst) == [t EXCEPT !.intent = lst]

-----------------------------------------------------------------------------
(* The cells *)

Cells == {"load", "drop", "rename", "show", "intent1", "intent2"}

\* position of a cell in the notebook's top-to-bottom order
CellNo(c) ==
    CASE c = "load" -> 1
      [] c = "drop" -> 2
      [] c = "rename" -> 3
      [] c = "show" -> 4
      [] c = "intent1" -> 5
      [] c = "intent2" -> 6

OutOfOrder == 0 - 1

\* pos = k: exactly the first k cells have run, top to bottom, without error
Advance(c, ok) == IF ok /\ pos = CellNo(c) - 1 THEN CellNo(c) ELSE OutOfOrder

Finish(c, ok) ==
    /\ lastCell' = c
    /\ lastOk' = ok
    /\ pos' = Advance(c, ok)

Init ==
    /\ file \in Files
    /\ heap = << >>
    /\ df = 0
    /\ loaded = 0
    /\ lastCell = "none"
    /\ lastOk = TRUE
    /\ pos = 0

\* df = pd.read_csv("ai4i2020.csv"); df
RunLoad ==
    IF ~file.exists
    THEN /\ Finish("load", FALSE)
         /\ UNCHANGED <<file, heap, df, loaded>>
    ELSE /\ Len(heap) < MaxObjs
         /\ heap' = Append(heap, ReadCsv(file))
         /\ df' = Len(heap) + 1
         /\ loaded' = Len(heap) + 1
         /\ Finish("load", TRUE)
         /\ UNCHANGED file

RunDropIgnoresMissing ==
    IF df = 0
    THEN /\ Finish("drop", FALSE)
         /\ UNCHANGED <<file, heap, df, loaded>>
    ELSE /\ heap' = [heap EXCEPT ![df] = DropTable(@)]
         /\ Finish("drop", TRUE)
         /\ UNCHANGED <<file, df, loaded>>

\* df.drop(columns=[...], inplace=True)
RunDrop ==
    IF df = 0 \/ ~(DropColumns \subseteq Names(heap[df]))
    THEN /\ Finish("drop", FALSE)
         /\ UNCHANGED <<file, heap, df, loaded>>
    ELSE /\ heap' = [heap EXCEPT ![df] = DropTable(@)]
         /\ Finish("drop", TRUE)
         /\ UNCHANGED <<file, df, loaded>>

RunRenameInPlace ==
    IF df = 0
    THEN /\ Finish("rename", FALSE)
         /\ UNCHANGED <<file, heap, df, loaded>>
    ELSE /\ heap' = [heap EXCEPT ![df] = RenameTable(@)]
         /\ Finish("rename", TRUE)
         /\ UNCHANGED <<file, df, loaded>>

RunRenameRaisesOnMissing ==
    IF df = 0 \/ ~(OldNames \subseteq Names(heap[df]))
    THEN /\ Finish("rename", FALSE)
         /\ UNCHANGED <<file, heap, df, loaded>>
    ELSE /\ Len(heap) < MaxObjs
         /\ heap' = Append(heap, RenameTable(heap[df]))
         /\ df' = Len(heap) + 1
         /\ Finish("rename", TRUE)
         /\ UNCHANGED <<file, loaded>>

\* df = df.rename(columns={...})
RunRename ==
    IF df = 0
    THEN /\ Finish("rename", FALSE)
         /\ UNCHANGED <<file, heap, df, loaded>>
    ELSE /\ Len(heap) < MaxObjs
         /\ heap' = Append(heap, RenameTable(heap[df]))
         /\ df' = Len(heap) + 1
         /\ Finish("rename", TRUE)
         /\ UNCHANGED <<file, loaded>>

\* df
RunShow ==
    /\ Finish("show", df # 0)
    /\ UNCHANGED <<file, heap, df, loaded>>

RunIntent(c, lst) ==
    IF df = 0
    THEN /\ Finish(c, FALSE)
         /\ UNCHANGED <<file, heap, df, loaded>>
    ELSE /\ heap' = [heap EXCEPT ![df] = SetIntent(@, lst)]
         /\ Finish(c, TRUE)
         /\ UNCHANGED <<file, df, loaded>>

\* df.intent = ["Type"]; df
RunIntentType == RunIntent("intent1", IntentType)

\* df.intent = ["Machine failure"]; df
RunIntentMachineFailure == RunIntent("intent2", IntentMachineFailure)

Next ==
    \/ RunLoad
    \/ RunDrop
    \/ RunRename
    \/ RunShow
    \/ RunIntentType
    \/ RunIntentMachineFailure

Spec == Init /\ [][Next]_vars

-----------------------------------------------------------------------------
(* Properties *)

\* a step that executes cell c
StepOf(c) == lastCell' = c /\ vars' # vars

IsAI4I == file.exists /\ file.schema = AI4I
InOrder == pos # OutOfOrder
Bound == df # 0

\* C1: for any table that holds the seven listed columns, the drop step
\* succeeds and leaves exactly the labels that were there minus those seven:
\* no other label goes and none is added.
DropRemovesExactlySeven ==
    [][ (Bound /\ DropColumns \subseteq Names(heap[df]) /\ StepOf("drop"))
        => /\ lastOk'
           /\ df' = df
           /\ Names(heap'[df]) = Names(heap[df]) \ DropColumns ]_vars

DropRemovesExactlySevenWitness ==
    /\ lastCell = "drop" /\ lastOk
    /\ Plain("Extra") \in Names(heap[df])
    /\ Names(heap[df]) \cap DropColumns = {}

\* C2: after the rename step no old label is left; every column that
\* carried an old label carries the corresponding new label at the same
\* position with the same values, every other column is as it was, and the
\* rows are the same; on the dataset's own header all five new labels are
\* present.
RenameReplacesLabels ==
    [][ (Bound /\ StepOf("rename") /\ lastOk')
        => LET old == heap[df]
               new == heap'[df']
           IN  /\ new.nrows = old.nrows
               /\ Len(new.cols) = Len(old.cols)
               /\ Names(new) \cap OldNames = {}
               /\ \A i \in DOMAIN old.cols :
                     /\ new.cols[i].src = old.cols[i].src
                     /\ old.cols[i].name \in OldNames
                           => new.cols[i].name = RenameMap[old.cols[i].name]
                     /\ old.cols[i].name \notin OldNames
                           => new.cols[i].name = old.cols[i].name
               /\ IsAI4I => NewNames \subseteq Names(new) ]_vars

RenameReplacesLabelsWitness ==
    /\ lastCell = "rename" /\ lastOk /\ IsAI4I
    /\ NewNames \subseteq Names(heap[df])
    /\ file.nrows = SmallRows

\* C3: an intent assignment changes no frame's columns, labels, column order,
\* values or row count, and rebinds nothing.
IntentLeavesDataUnchanged ==
    [][ (StepOf("intent1") \/ StepOf("intent2"))
        => /\ df' = df
           /\ Len(heap') = Len(heap)
           /\ \A o \in DOMAIN heap :
                 /\ heap'[o].cols = heap[o].cols
                 /\ heap'[o].nrows = heap[o].nrows ]_vars

IntentLeavesDataUnchangedWitness ==
    /\ lastCell \in {"intent1", "intent2"} /\ lastOk
    /\ heap[df].intent # << >>
    /\ Len(heap[df].cols) > 1

\* the columns of interest, as the file labels them
OfInterest == { AI4I[i] : i \in 1..Len(AI4I) } \ DropColumns

\* C4: on the 14-column, 10,000-row dataset run top to bottom, the table has
\* exactly the 7 columns of interest and 10,000 rows after the drop step, and
\* after the rename step none of the five renamed columns has a square
\* bracket in its label.
EndToEnd ==
    (IsAI4I /\ file.nrows = NRows /\ pos >= 2)
    => LET t == heap[df]
       IN  /\ Len(t.cols) = 7
           /\ t.nrows = NRows
           /\ pos = 2 => Names(t) = OfInterest
           /\ pos >= 3 =>
                 \A i \in DOMAIN t.cols :
                    AI4I[t.cols[i].src] \in OldNames
                       => ~HasSquareBracket(t.cols[i].name)

EndToEndWitness ==
    /\ IsAI4I /\ file.nrows = NRows /\ pos = 3
    /\ Cardinality(Names(heap[df])) = 7

DisplayCells == {"load", "show", "intent1", "intent2"}

\* C5: whenever a cell of the top-to-bottom run has displayed df, no column
\* label of df contains a square bracket.
DisplayedLabelsHaveNoSquareBracket ==
    (IsAI4I /\ InOrder /\ lastCell \in DisplayCells /\ lastOk)
    => \A l \in Names(heap[df]) : ~HasSquareBracket(l)

DropFailsOnMissingColumn ==
    [][ /\ (Bound /\ ~(DropColumns \subseteq Names(heap[df])) /\ StepOf("drop"))
           => (~lastOk' /\ heap' = heap /\ df' = df)
        /\ (lastCell = "drop" /\ lastOk /\ StepOf("drop"))
           => (~lastOk' /\ heap' = heap /\ df' = df) ]_vars

DropFailsOnMissingColumnWitness ==
    /\ lastCell = "drop" /\ ~lastOk /\ Bound
    /\ DropColumns \subseteq Names(ReadCsv(file))
    /\ Names(heap[df]) \cap DropColumns = {}

\* C8 as stated: after the top-to-bottom run the frame that read_csv
\* returned has the seven columns removed and the five columns renamed.
LoadedFrameDroppedAndRenamed ==
    (IsAI4I /\ pos = 6)
    => /\ Names(heap[loaded]) \cap DropColumns = {}
       /\ Names(heap[loaded]) \cap OldNames = {}
       /\ NewNames \subseteq Names(heap[loaded])

\* C8: in the top-to-bottom run the table is loaded once and the drop step
\* changes the loaded frame in place, but the rename step binds df to a new
\* frame: from the rename step on the frame that read_csv returned has the
\* seven columns removed and still carries the five square-bracket labels,
\* and only df's frame carries the new labels.
LoadedFrameDroppedOnly ==
    (IsAI4I /\ pos >= 1)
    => /\ loaded = 1
       /\ pos <= 2 => (df = loaded /\ Len(heap) = 1)
       /\ pos >= 2 => Names(heap[loaded]) \cap DropColumns = {}
       /\ pos >= 3 =>
             /\ Len(heap) = 2 /\ df = 2
             /\ OldNames \subseteq Names(heap[loaded])
             /\ Names(heap[loaded]) \cap NewNames = {}
             /\ NewNames \subseteq Names(heap[df])
             /\ Names(heap[df]) \cap (OldNames \cup DropColumns) = {}

LoadedFrameDroppedOnlyWitness ==
    /\ IsAI4I /\ pos = 6
    /\ df # loaded

\* C9: in the top-to-bottom run on the dataset the intent of df is empty or
\* holds only labels of df's columns, and an assignment replaces the list:
\* after the first it is ["Type"], after the second ["Machine failure"].
IntentNamesColumns ==
    (IsAI4I /\ InOrder /\ Bound)
    => LET t == heap[df]
       IN  /\ \A j \in DOMAIN t.intent : t.intent[j] \in Names(t)
           /\ pos <= 4 => t.intent = << >>
           /\ pos = 5 => t.intent = IntentType
           /\ pos = 6 => t.intent = IntentMachineFailure

IntentNamesColumnsWitness ==
    /\ IsAI4I /\ pos = 6
    /\ heap[df].intent = IntentMachineFailure

Twelve == DropColumns \cup OldNames

\* C10: the dropped labels are disjoint from the old and the new labels of
\* the rename, and for an input with all twelve labels rename-then-drop
\* gives the table drop-then-rename gives: whatever the order the two cells
\* ran in, df's table is that one table.
DropRenameCommute ==
    /\ DropColumns \cap (OldNames \cup NewNames) = {}
    /\ (file.exists /\ Twelve \subseteq Names(ReadCsv(file)))
       => LET t0 == ReadCsv(file)
          IN  /\ DropTable(RenameTable(t0)) = RenameTable(DropTable(t0))
              /\ (Bound /\ Names(heap[df]) \cap Twelve = {})
                    => /\ heap[df].cols = DropTable(RenameTable(t0)).cols
                       /\ heap[df].nrows = t0.nrows

DropRenameCommuteWitness ==
    /\ lastCell = "drop" /\ lastOk
    /\ Twelve \subseteq Names(ReadCsv(file))
    /\ NewNames \subseteq Names(heap[df])
    /\ Names(heap[df]) \cap Twelve = {}

====
